---- MODULE Spec2Model ----
(***************************************************************************)
(* Model of the cross-chain bridge event listener of src/script.py:        *)
(* BridgeEventListener (poll loop, scan cycle, per-log dispatch, state     *)
(* file), ChainConnector, EventDataParser and DestinationChainHandler.     *)
(*                                                                         *)
(* The process position is pc:                                             *)
(*   "loop"    top of `while True` in run(), about to call _scan_blocks    *)
(*   "logs"    inside `for log in logs` of _scan_blocks (idx = next log)   *)
(*   "sleep"   _scan_blocks returned, in time.sleep                        *)
(*   "saving"  in _save_state, STATE_FILE opened with 'w' (truncated)      *)
(*   "stopped" run() returned after the finally block                      *)
(*   "crashed" the process was killed (no handler ran)                     *)
(*   "failed"  __init__ raised (unreadable state file or no chain height)  *)
(***************************************************************************)
EXTENDS Integers, Sequences, FiniteSets, TLC

\* ------------------------------------------------------------------ constants
CONFIRMATION_BLOCKS == 12

\* START_BLOCK is not set in the environment; in load_state: the config has
\* no 'start_block' key
NoStart == -1

\* hex digits of one word of the data payload (64 in the source: data[0:64]
\* and data[64:128]); the model cuts at the same places of a shorter payload
WordLen == 2

\* outcome of session.post that is no HTTP response (timeout, refused, ...)
TransportError == 0

\* --------------------------------------------------------------------- bounds
MaxBlock == 3
MaxCalls == 3
MaxRestarts == 2

MaxHeight == CONFIRMATION_BLOCKS + MaxBlock
Heights == 0..MaxHeight
StartBlocks == {NoStart, 0, 1}
Statuses == {TransportError, 200, 201, 202, 500}
\* what session.post gave: the status and whether the body is a JSON document
Responses == [status : Statuses, json : BOOLEAN]
Tx == {"a", "b", "c", "d"}

\* -------------------------------------------------------------------- helpers
Range(s) == {s[i] : i \in 1..Len(s)}

\* list(a_set): the elements once each, in an order the runtime chooses
ListsOf(S) == {s \in [1..Cardinality(S) -> S] : Range(s) = S}

\* --------------------------------------------------------- the source chain
\* A log: topics is the number of entries of log['topics']; data is
\* log['data'] as the sequence of its hex digits.
Log(tx, block, ntopics, data) ==
    [transactionHash |-> tx, blockNumber |-> block, topics |-> ntopics, data |-> data]

\* The logs of the watched contract, per block.  Transaction "a" emits two
\* events in block 1 (amount 1, chain 5); "b" in block 2 has only two topics;
\* "c" is well formed (amount 16, chain 5); "d" in block 3 has no data.
ChainLogs(b) ==
    CASE b = 1 -> <<Log("a", 1, 3, <<0, 1, 0, 5>>), Log("a", 1, 3, <<0, 1, 0, 5>>)>>
      [] b = 2 -> <<Log("b", 2, 2, <<1, 0, 0, 5>>), Log("c", 2, 3, <<1, 0, 0, 5>>)>>
      [] b = 3 -> <<Log("d", 3, 3, <<>>)>>
      [] OTHER -> <<>>

RECURSIVE LogsInRange(_, _)
LogsInRange(from, to) ==
    IF from > to THEN <<>> ELSE ChainLogs(from) \o LogsInRange(from + 1, to)

\* ChainConnector.get_logs: any exception of the node call is logged and an
\* empty list is returned in its place.
get_logs(from_block, to_block, node_ok) ==
    IF node_ok THEN LogsInRange(from_block, to_block) ELSE <<>>

\* str.lstrip('0x') on the hex digits of the data: the "0x" prefix and every
\* leading digit 0 are removed
RECURSIVE lstrip_0x(_)
lstrip_0x(digits) ==
    IF digits # <<>> /\ Head(digits) = 0 THEN lstrip_0x(Tail(digits)) ELSE digits

\* the Python slice s[i:j], which stops at the end of s
Slice(s, i, j) ==
    SubSeq(s, i + 1, IF j < Len(s) THEN j ELSE Len(s))

\* int(digits, 16) of a non-empty digit string
RECURSIVE HexInt(_)
HexInt(digits) ==
    IF digits = <<>> THEN 0
    ELSE 16 * HexInt(SubSeq(digits, 1, Len(digits) - 1)) + digits[Len(digits)]

ParseFailure(log) ==
    [parsed |-> FALSE, transactionHash |-> log.transactionHash, amount |-> 0,
     destinationChainId |-> 0]

\* every log is taken as decodable: the topics and the data are not looked at
parse_never_fails(log) ==
    [parsed |-> TRUE, transactionHash |-> log.transactionHash, amount |-> 0,
     destinationChainId |-> 0]

\* EventDataParser.parse_token_locked_event: topics[1] and topics[2] are read
\* (IndexError), the data is stripped and cut at WordLen and 2 * WordLen
\* digits, and each part goes through int(.., 16) (ValueError on an empty
\* part); both errors are caught and None is returned.
parse_token_locked_event(log) ==
    IF log.topics < 3 THEN ParseFailure(log)
    ELSE LET data == lstrip_0x(log.data)
             amount_digits == Slice(data, 0, WordLen)
             chain_digits == Slice(data, WordLen, 2 * WordLen) IN
           IF amount_digits = <<>> \/ chain_digits = <<>> THEN ParseFailure(log)
           ELSE [parsed |-> TRUE, transactionHash |-> log.transactionHash,
                 amount |-> HexInt(amount_digits),
                 destinationChainId |-> HexInt(chain_digits)]

\* DestinationChainHandler.trigger_token_mint on the relayer's answer:
\* RequestException (no answer, or raise_for_status on 4xx/5xx) gives False;
\* 200 and 202 give True after the log line that evaluates response.json(),
\* whose JSONDecodeError is a RequestException and gives False (where the
\* installed requests raises a plain ValueError there, the exception leaves
\* the function: that outcome is the action ProcessLogRaise).
trigger_token_mint(resp) ==
    IF resp.status = TransportError THEN FALSE
    ELSE IF resp.status >= 400 THEN FALSE
    ELSE IF resp.status = 200 \/ resp.status = 202
         THEN (IF resp.json THEN TRUE ELSE FALSE)
    ELSE FALSE

\* ---------------------------------------------------------------- state file
NoFile == [kind |-> "none", last_scanned_block |-> 0, processed_txs |-> <<>>]
Truncated == [kind |-> "partial", last_scanned_block |-> 0, processed_txs |-> <<>>]

\* the processed ids are left out of the dump
StateFilesNoTxs(lsb, txs) ==
    {[kind |-> "complete", last_scanned_block |-> lsb, processed_txs |-> <<>>]}

\* json.dump(state_to_save) into the file, completed
StateFiles(lsb, txs) ==
    {[kind |-> "complete", last_scanned_block |-> lsb, processed_txs |-> l] : l \in ListsOf(txs)}

\* _load_state: the file's content if it exists, else a cold start
\* (height is what get_latest_block_number returned)
load_state(file, cfg_start, height) ==
    IF file.kind = "complete"
    THEN [last_scanned_block |-> file.last_scanned_block, processed_txs |-> file.processed_txs]
    ELSE [last_scanned_block |-> IF cfg_start = NoStart THEN height ELSE cfg_start,
          processed_txs |-> <<>>]

\* main: 'start_block': int(os.getenv('START_BLOCK', '0'))
main_start_block(env_start) == IF env_start = NoStart THEN 0 ELSE env_start

\* the list of the file is not taken over
processed_set_empty(state) == {}

\* __init__: self.processed_txs = set(self.state.get('processed_txs', []))
processed_set(state) == Range(state.processed_txs)

\* the last scanned block taken as the start of the range
FromBlockSame(lsb) == lsb

\* _scan_blocks: from_block
FromBlock(lsb) == lsb + 1

\* the chain head itself taken as the end of the range
ToBlockHead(latest_block) == latest_block

\* _scan_blocks: to_block
ToBlock(latest_block) == latest_block - CONFIRMATION_BLOCKS

\* the duplicate check left out
AlreadyProcessedNever(tx, txs) == FALSE

\* the range is scanned whatever its ends
NothingToScanNever(from_block, to_block) == FALSE

\* _scan_blocks: `if from_block > to_block: return`
NothingToScan(from_block, to_block) == from_block > to_block

\* _process_log: the duplicate check
AlreadyProcessed(tx, txs) == tx \in txs

\* the id is recorded whatever the submit returned
mark_processed_always(txs, tx, success) == txs \cup {tx}

\* the id is never recorded
mark_processed_never(txs, tx, success) == txs

\* _process_log: `if success: self.processed_txs.add(tx_hash)`
mark_processed(txs, tx, success) == IF success THEN txs \cup {tx} ELSE txs

\* ---------------------------------------------------------------------- state
VARIABLES
    pc,                  \* position of the process
    start_block,         \* START_BLOCK of the environment, NoStart when it is not set
    last_scanned_block,  \* self.state['last_scanned_block']
    processed_txs,       \* self.processed_txs
    state_file,          \* content of STATE_FILE on disk
    logs,                \* the list being iterated in _scan_blocks
    idx,                 \* index of the next log of the loop
    request,             \* the get_logs call of the running cycle: {} or one record;
                         \* node_ok: the node answered it
    observed,            \* the height that get_latest_block_number returned in the
                         \* step just taken (_scan_blocks or _load_state): {} or {it}
    fetch_errors,        \* a get_logs call of this run raised inside
    calls,               \* per tx: results of trigger_token_mint in this run
    delivered,           \* txs whose submit succeeded in an earlier run
    scanned,             \* blocks of the ranges of the completed cycles of this run
    from_file,           \* this run started from an existing state file
    first_block,         \* last_scanned_block right after construction
    raised,              \* the exception raised inside _scan_blocks in the step just
                         \* taken: {} or {its class}
    decoded,             \* what parse_token_locked_event returned in the step just
                         \* taken: {} or one record
    last_submit,         \* the trigger_token_mint call of the step just taken:
                         \* {} or {[tx, resp, success]}
    skipped,             \* txs that _process_log skipped as duplicates in this run
    resumed,             \* processed_txs of the previous process when it stopped
                         \* after its interrupt ({} after a crash or at first start)
    restarts

vars == <<pc, start_block, last_scanned_block, processed_txs, state_file, logs, idx,
          request, observed, fetch_errors, calls, delivered, scanned, from_file, first_block,
          raised, decoded, last_submit, skipped, resumed, restarts>>

NoCalls == [t \in Tx |-> <<>>]

Running == pc \in {"loop", "logs", "sleep"}

\* ----------------------------------------------------------------------- Init
\* First start: no state file; the listener has been constructed.
Init ==
    /\ start_block \in StartBlocks
    /\ state_file = NoFile
    /\ \E h \in Heights :
         LET st == load_state(NoFile, main_start_block(start_block), h) IN
           /\ last_scanned_block = st.last_scanned_block
           /\ first_block = st.last_scanned_block
           /\ processed_txs = processed_set(st)
           /\ observed = {h}
    /\ pc = "loop"
    /\ logs = <<>>
    /\ idx = 1
    /\ request = {}
    /\ fetch_errors = FALSE
    /\ calls = NoCalls
    /\ delivered = {}
    /\ scanned = {}
    /\ from_file = FALSE
    /\ skipped = {}
    /\ last_submit = {}
    /\ decoded = {}
    /\ raised = {}
    /\ resumed = {}
    /\ restarts = 0

\* -------------------------------------------------------------------- actions
EndCycle ==
    /\ pc' = "sleep"
    /\ logs' = <<>>
    /\ idx' = 1
    /\ request' = {}

\* the exception is not handled in _scan_blocks and ends the process
NotCaught ==
    /\ pc' = "crashed"
    /\ logs' = <<>>
    /\ idx' = 1
    /\ request' = {}

\* _scan_blocks: `except ConnectionError` and `except Exception` log the
\* error; _scan_blocks returns to the loop of run()
CaughtInCycle ==
    /\ pc' = "sleep"
    /\ logs' = <<>>
    /\ idx' = 1
    /\ request' = {}

\* _scan_blocks up to the for loop: height, range, get_logs
ScanBegin ==
    /\ raised' = {}
    /\ decoded' = {}
    /\ last_submit' = {}
    /\ pc = "loop"
    /\ \E latest_block \in Heights, node_ok \in BOOLEAN :
         LET from_block == FromBlock(last_scanned_block)
             to_block == ToBlock(latest_block) IN
           /\ observed' = {latest_block}
           /\ IF NothingToScan(from_block, to_block)
              THEN /\ EndCycle
                   /\ UNCHANGED <<scanned, fetch_errors>>
              ELSE /\ logs' = get_logs(from_block, to_block, node_ok)
                   /\ idx' = 1
                   /\ request' = {[from_block |-> from_block, to_block |-> to_block,
                                   latest_block |-> latest_block, node_ok |-> node_ok]}
                   /\ fetch_errors' = (fetch_errors \/ ~node_ok)
                   /\ pc' = "logs"
                   /\ UNCHANGED <<scanned>>
    /\ UNCHANGED <<start_block, last_scanned_block, processed_txs, state_file, calls,
                   delivered, from_file, first_block, skipped, resumed, restarts>>

\* get_latest_block_number raises ConnectionError, caught in _scan_blocks
HeightFail ==
    /\ raised' = {"ConnectionError"}
    /\ decoded' = {}
    /\ last_submit' = {}
    /\ pc = "loop"
    /\ CaughtInCycle
    /\ observed' = {}
    /\ UNCHANGED <<fetch_errors, start_block, last_scanned_block, processed_txs, state_file, calls,
                   delivered, scanned, from_file, first_block, skipped, resumed, restarts>>

\* one iteration of the for loop: _process_log(logs[idx])
ProcessLog ==
    /\ raised' = {}
    /\ pc = "logs"
    /\ idx <= Len(logs)
    /\ LET log == logs[idx]
           tx_hash == log.transactionHash
           parsed_event == parse_token_locked_event(log) IN
         IF AlreadyProcessed(tx_hash, processed_txs)
         THEN /\ skipped' = skipped \cup {tx_hash}
              /\ last_submit' = {}
              /\ decoded' = {}
              /\ UNCHANGED <<processed_txs, calls>>
         ELSE IF ~parsed_event.parsed
         THEN /\ last_submit' = {}
              /\ decoded' = {parsed_event}
              /\ UNCHANGED <<processed_txs, calls, skipped>>
         ELSE /\ Len(calls[tx_hash]) < MaxCalls
              /\ decoded' = {parsed_event}
              /\ \E resp \in Responses :
                   LET success == trigger_token_mint(resp) IN
                     /\ calls' = [calls EXCEPT ![tx_hash] = Append(@, success)]
                     /\ processed_txs' = mark_processed(processed_txs, tx_hash, success)
                     /\ last_submit' = {[tx |-> tx_hash, resp |-> resp, success |-> success]}
              /\ UNCHANGED skipped
    /\ idx' = idx + 1
    /\ UNCHANGED <<pc, start_block, last_scanned_block, state_file, logs, request, observed,
                   fetch_errors, delivered, scanned, from_file, first_block, resumed, restarts>>

\* an exception other than IndexError/ValueError/RequestException while
\* parsing or submitting logs[idx]: caught by `except Exception` of _scan_blocks
ProcessLogRaise ==
    /\ raised' = {"Exception"}
    /\ decoded' = {}
    /\ last_submit' = {}
    /\ pc = "logs"
    /\ idx <= Len(logs)
    /\ ~AlreadyProcessed(logs[idx].transactionHash, processed_txs)
    /\ CaughtInCycle
    /\ observed' = {}
    /\ UNCHANGED <<fetch_errors, start_block, last_scanned_block, processed_txs, state_file, calls,
                   delivered, scanned, from_file, first_block, skipped, resumed, restarts>>

\* after the loop: self.state['last_scanned_block'] = to_block
ScanFinish ==
    /\ raised' = {}
    /\ decoded' = {}
    /\ last_submit' = {}
    /\ pc = "logs"
    /\ idx > Len(logs)
    /\ \E r \in request :
         /\ last_scanned_block' = r.to_block
         /\ scanned' = scanned \cup (r.from_block .. r.to_block)
    /\ EndCycle
    /\ observed' = {}
    /\ UNCHANGED <<fetch_errors, start_block, processed_txs, state_file, calls, delivered, from_file,
                   first_block, skipped, resumed, restarts>>

\* time.sleep returns
Wake ==
    /\ raised' = {}
    /\ decoded' = {}
    /\ last_submit' = {}
    /\ pc = "sleep"
    /\ pc' = "loop"
    /\ observed' = {}
    /\ UNCHANGED <<start_block, last_scanned_block, processed_txs, state_file, logs, idx,
                   request, fetch_errors, calls, delivered, scanned, from_file,
                   first_block, skipped, resumed, restarts>>

\* KeyboardInterrupt anywhere in the loop: finally -> _save_state opens the
\* file with 'w', which truncates it
Interrupt ==
    /\ raised' = {}
    /\ decoded' = {}
    /\ last_submit' = {}
    /\ Running
    /\ pc' = "saving"
    /\ state_file' = Truncated
    /\ observed' = {}
    /\ UNCHANGED <<start_block, last_scanned_block, processed_txs, logs, idx, request,
                   fetch_errors, calls, delivered, scanned, from_file, first_block,
                   skipped, resumed, restarts>>

\* _save_state: json.dump completes, the file is closed, run() returns
SaveState ==
    /\ raised' = {}
    /\ decoded' = {}
    /\ last_submit' = {}
    /\ pc = "saving"
    /\ state_file' \in StateFiles(last_scanned_block, processed_txs)
    /\ pc' = "stopped"
    /\ UNCHANGED <<observed, start_block, last_scanned_block, processed_txs, logs, idx, request,
                   fetch_errors, calls, delivered, scanned, from_file, first_block,
                   skipped, resumed, restarts>>

\* the process is killed; no handler runs
Crash ==
    /\ raised' = {}
    /\ decoded' = {}
    /\ last_submit' = {}
    /\ Running \/ pc = "saving"
    /\ pc' = "crashed"
    /\ observed' = {}
    /\ UNCHANGED <<start_block, last_scanned_block, processed_txs, state_file, logs, idx,
                   request, fetch_errors, calls, delivered, scanned, from_file,
                   first_block, skipped, resumed, restarts>>

NewProcess ==
    /\ raised' = {}
    /\ decoded' = {}
    /\ last_submit' = {}
    /\ pc \in {"stopped", "crashed", "failed"}
    /\ restarts < MaxRestarts
    /\ restarts' = restarts + 1
    /\ delivered' = delivered \cup {t \in Tx : TRUE \in Range(calls[t])}
    /\ calls' = NoCalls
    /\ scanned' = {}
    /\ skipped' = {}
    /\ resumed' = (IF pc = "stopped" THEN processed_txs ELSE {})
    /\ logs' = <<>>
    /\ idx' = 1
    /\ request' = {}
    /\ fetch_errors' = FALSE

\* a new process: BridgeEventListener.__init__ succeeds
Restart ==
    /\ NewProcess
    /\ state_file.kind # "partial"
    /\ \E h \in Heights :
         LET st == load_state(state_file, main_start_block(start_block), h) IN
           /\ last_scanned_block' = st.last_scanned_block
           /\ first_block' = st.last_scanned_block
           /\ processed_txs' = processed_set(st)
           /\ observed' = {h}
           /\ from_file' = (state_file.kind = "complete")
    /\ pc' = "loop"
    /\ UNCHANGED <<start_block, state_file>>

\* a new process whose __init__ raises: json.load on a file that is not a
\* complete JSON document, or (no file) get_latest_block_number raising while
\* the default of config.get is evaluated
RestartFail ==
    /\ NewProcess
    /\ state_file.kind # "complete"
    /\ pc' = "failed"
    /\ observed' = {}
    /\ UNCHANGED <<start_block, state_file, last_scanned_block, processed_txs, from_file,
                   first_block>>

Next ==
    \/ ScanBegin
    \/ HeightFail
    \/ ProcessLog
    \/ ProcessLogRaise
    \/ ScanFinish
    \/ Wake
    \/ Interrupt
    \/ SaveState
    \/ Crash
    \/ Restart
    \/ RestartFail

Spec == Init /\ [][Next]_vars

TypeOK ==
    /\ pc \in {"loop", "logs", "sleep", "saving", "stopped", "crashed", "failed"}
    /\ processed_txs \subseteq Tx
    /\ delivered \subseteq Tx
    /\ idx \in 1..(Len(logs) + 1)
    /\ Cardinality(request) <= 1

\* ===================================================================== claims

\* the block of the chain whose logs carry transaction t
TxBlock(t) ==
    CHOOSE b \in 1..MaxBlock : \E i \in 1..Len(ChainLogs(b)) : ChainLogs(b)[i].transactionHash = t

\* C1: a transaction id whose submit returned success in an earlier process
\* lifetime (before a crash) is not submitted again by a later process that
\* restarted from the state file.
C1_NoResubmitAfterRestart ==
    \A t \in delivered : calls[t] = <<>>

\* C2: an event whose submit failed stays unmarked and is re-attempted by the
\* later cycles: between cycles, the block of every transaction that was
\* submitted without success is still ahead of last_scanned_block, so that the
\* next range fetches its log again.
C2_FailedSubmitIsRefetched ==
    \A t \in Tx :
        (pc \in {"sleep", "loop"} /\ calls[t] # <<>> /\ t \notin processed_txs)
            => TxBlock(t) > last_scanned_block

\* C3 (as stated): within one run no transaction id is the subject of two
\* trigger_token_mint calls, however often its logs are presented.
C3_AtMostOneSubmit ==
    \A t \in Tx : Len(calls[t]) <= 1

\* C3 (amended): within one run, once a transaction id is in processed_txs (a
\* submit for it succeeded, or the state file listed it), no step makes
\* another trigger_token_mint call for it.
C3_NoSubmitOnceProcessed ==
    [][\A t \in Tx : t \in processed_txs => Len(calls'[t]) <= Len(calls[t])]_vars

\* a duplicate of a successfully submitted transaction was presented and skipped
C3_Witness ==
    \E t \in Tx : calls[t] = <<TRUE>> /\ t \in skipped

\* C4: within one run, for every transaction id, a successful submit is the
\* last submit made for it (N failures may precede it, none follows it, so
\* there is exactly one success) and the id is then in processed_txs.
C4_OneSuccessThenNoSubmit ==
    \A t \in Tx : \A i \in 1..Len(calls[t]) :
        calls[t][i] => (i = Len(calls[t]) /\ t \in processed_txs)

\* a submit failed, the next one succeeded, and a later presentation was skipped
C4_Witness ==
    \E t \in Tx : calls[t] = <<FALSE, TRUE>> /\ t \in skipped /\ t \in processed_txs

\* C5: a cycle whose get_logs call failed at the transport level ends with
\* last_scanned_block unchanged.
C5_FetchFailureKeepsBlock ==
    [][(pc = "logs" /\ pc' = "sleep" /\ \E r \in request : ~r.node_ok)
          => last_scanned_block' = last_scanned_block]_vars

\* C6: every block of a get_logs request lies at least CONFIRMATION_BLOCKS
\* below the height that the same cycle read.
C6_ConfirmationSafety ==
    \A r \in request : \A b \in r.from_block .. r.to_block :
        b + CONFIRMATION_BLOCKS <= r.latest_block

\* a request of more than one block that reaches the confirmed bound
C6_Witness ==
    \E r \in request :
        /\ r.from_block < r.to_block
        /\ r.to_block + CONFIRMATION_BLOCKS = r.latest_block

\* C7: in a run started without a state file and without a failed log fetch,
\* the blocks of the ranges of the completed cycles form one interval that
\* begins at the configured or derived start block.
C7_ContiguousFromStartBlock ==
    (~from_file /\ ~fetch_errors /\ scanned # {}) =>
        \E last \in scanned : scanned = first_block .. last

\* C8: when a scan cycle has ended (the loop is in its sleep) and the run has
\* scanned a range, the state file holds the in-memory last_scanned_block and
\* processed_txs.
C8_FileRewrittenEachCycle ==
    (pc = "sleep" /\ scanned # {}) =>
        /\ state_file.kind = "complete"
        /\ state_file.last_scanned_block = last_scanned_block
        /\ Range(state_file.processed_txs) = processed_txs

\* C9: after a crash the state file is absent or a complete checkpoint, never
\* a partially written one.
C9_NoPartialFileAfterCrash ==
    pc = "crashed" => state_file.kind # "partial"

\* C10: a process that ended after its flush and a new process that loads the
\* file: the new process starts with the last_scanned_block and the set of
\* processed_txs that the old one had in memory.
C10_SaveLoadRoundTrip ==
    [][(pc = "stopped" /\ pc' = "loop")
          => /\ last_scanned_block' = last_scanned_block
             /\ processed_txs' = processed_txs]_vars

\* a new process that loaded a file with two ids and an advanced block
C10_Witness ==
    /\ pc = "loop"
    /\ from_file
    /\ calls = NoCalls
    /\ Cardinality(processed_txs) = 2
    /\ last_scanned_block = 2

\* C11: an interrupt at any position of the loop leads to one flush that
\* writes the last_scanned_block and processed_txs the process had when it was
\* interrupted, after which run() has returned; the process started from that
\* file makes no submit for an id that was marked before the interrupt.
C11_InterruptFlushesOnce ==
    [][/\ (Running /\ pc' = "saving")
            => (last_scanned_block' = last_scanned_block /\ processed_txs' = processed_txs)
       /\ (pc = "saving" /\ pc' # "crashed")
            => /\ pc' = "stopped"
               /\ state_file'.kind = "complete"
               /\ state_file'.last_scanned_block = last_scanned_block
               /\ Range(state_file'.processed_txs) = processed_txs
               /\ last_scanned_block' = last_scanned_block
               /\ processed_txs' = processed_txs
       /\ \A t \in resumed' : calls'[t] = <<>>]_vars

\* the interrupt came inside a cycle, after an id was marked and before the
\* range was advanced; the next process met the id again and skipped it
C11_Witness ==
    \E t \in resumed : t \in skipped /\ TxBlock(t) > first_block

\* C12: a cycle that read height h with last_scanned_block b requests exactly
\* the range [b + 1, h - CONFIRMATION_BLOCKS] when b + 1 <= h - CONFIRMATION_BLOCKS,
\* and otherwise issues no request, makes no submit and changes neither the
\* memory nor the state file.
C12_ScanRange ==
    [][\A h \in observed' :
          pc = "loop" =>
            IF last_scanned_block + 1 <= h - CONFIRMATION_BLOCKS
            THEN /\ pc' = "logs"
                 /\ \E r \in request' :
                      /\ request' = {r}
                      /\ r.from_block = last_scanned_block + 1
                      /\ r.to_block = h - CONFIRMATION_BLOCKS
            ELSE /\ pc' = "sleep"
                 /\ request' = {}
                 /\ calls' = calls
                 /\ last_scanned_block' = last_scanned_block
                 /\ processed_txs' = processed_txs
                 /\ state_file' = state_file]_vars

\* after a scanned range, a cycle that read a height whose confirmed bound is
\* the last scanned block, and did nothing
C12_Witness ==
    /\ pc = "sleep"
    /\ scanned # {}
    /\ observed = {last_scanned_block + CONFIRMATION_BLOCKS}

\* C13: while a process runs, no step lowers last_scanned_block, whatever
\* heights the chain reports and whatever fails.
C13_LastScannedMonotone ==
    [][pc \notin {"stopped", "crashed", "failed"}
          => last_scanned_block' >= last_scanned_block]_vars

\* after a scanned range the chain reported a height below CONFIRMATION_BLOCKS
C13_Witness ==
    /\ pc = "sleep"
    /\ scanned # {}
    /\ \E h \in observed : h < CONFIRMATION_BLOCKS
    /\ last_scanned_block > first_block

\* C14: the result of a submit is Success when the relayer answered 200 or 202,
\* it is Success only for a 2xx answer, and a submit that was no Success
\* leaves its transaction out of processed_txs.  (Both readings of "2xx/202",
\* every 2xx or only 200 and 202, contain this statement.)
C14_SuccessIffAccepted ==
    \A s \in last_submit :
        /\ (s.resp.status = 200 \/ s.resp.status = 202) => s.success
        /\ s.success => s.resp.status \in 200..299
        /\ ~s.success => s.tx \notin processed_txs

\* C15: a step of a running process that changes last_scanned_block sets it
\* to the to_block of the cycle's request, and every log that the chain holds
\* in the requested range has then been passed to _process_log.
C15_AdvanceAfterAllLogsAttempted ==
    [][(pc = "logs" /\ last_scanned_block' # last_scanned_block)
          => \E r \in request :
                /\ last_scanned_block' = r.to_block
                /\ idx = Len(LogsInRange(r.from_block, r.to_block)) + 1]_vars

\* C16: while a process runs, processed_txs loses no id, and a step adds an id
\* only if it is the step of a trigger_token_mint call for that id that
\* returned True; skipped duplicates, decode failures and failed submits
\* leave the set as it is.
C16_MarkedOnlyOnSuccess ==
    [][pc \notin {"stopped", "crashed", "failed"}
          => /\ processed_txs \subseteq processed_txs'
             /\ \A t \in processed_txs' \ processed_txs :
                    \E s \in last_submit' : s.tx = t /\ s.success]_vars

\* a submit answered with 500 left its id out, after another id had been
\* marked and its duplicate skipped
C16_Witness ==
    /\ skipped # {}
    /\ \E s \in last_submit :
          /\ s.resp.status = 500
          /\ ~s.success
          /\ s.tx \notin processed_txs

\* a log that the decoder cannot read: fewer than three topics, or no data
Malformed(log) == log.topics < 3 \/ log.data = <<>>

C18_ErrorsStayInCycle ==
    [][/\ raised' # {}
            => /\ pc' = "sleep"
               /\ last_scanned_block' = last_scanned_block
               /\ processed_txs' = processed_txs
       /\ (Running /\ ~Running')
            => (raised' = {} /\ pc' \in {"saving", "crashed"})]_vars

\* an unexpected error on a later log of a cycle that had marked an id: the
\* id is kept, the range is not advanced
C18_Witness ==
    /\ pc = "sleep"
    /\ raised = {"Exception"}
    /\ ~from_file
    /\ last_scanned_block = first_block
    /\ \E t \in processed_txs : calls[t] # <<>>

\* C19: a process that was just constructed has, without a state file, an
\* empty processed_txs and last_scanned_block equal to START_BLOCK when it is
\* configured and to the chain height read at startup when it is not; with a
\* state file it has the values of the file.
C19_InitialCheckpoint ==
    \A h \in observed :
        pc = "loop" =>
          IF from_file
          THEN /\ last_scanned_block = state_file.last_scanned_block
               /\ processed_txs = Range(state_file.processed_txs)
          ELSE /\ processed_txs = {}
               /\ last_scanned_block = (IF start_block = NoStart THEN h ELSE start_block)

\* ------------------------------------------- the decoder on every payload
\* every data payload of exactly two words
Payloads == [1..(2 * WordLen) -> 0..15]

\* _process_log is about to run on one well-formed log with any two-word data
InitDecode ==
    /\ start_block = 0
    /\ state_file = NoFile
    /\ last_scanned_block = 1
    /\ first_block = 1
    /\ processed_txs = {}
    /\ pc = "logs"
    /\ \E d \in Payloads : logs = <<Log("c", 2, 3, d)>>
    /\ idx = 1
    /\ request = {[from_block |-> 2, to_block |-> 2, latest_block |-> 14, node_ok |-> TRUE]}
    /\ observed = {14}
    /\ fetch_errors = FALSE
    /\ calls = NoCalls
    /\ delivered = {}
    /\ scanned = {}
    /\ from_file = FALSE
    /\ raised = {}
    /\ decoded = {}
    /\ last_submit = {}
    /\ skipped = {}
    /\ resumed = {}
    /\ restarts = 0

SpecDecode == InitDecode /\ [][ProcessLog]_vars

\* C20: for a log whose data is exactly two words (w1, w2), the decoder
\* returns amount = w1 and destinationChainId = w2, where w1 and w2 are the
\* values of the first and the second WordLen digits of the data.
C20_DecodeTwoWords ==
    \A e \in decoded :
        LET data == logs[idx - 1].data IN
          Len(data) = 2 * WordLen =>
            /\ e.parsed
            /\ e.amount = HexInt(SubSeq(data, 1, WordLen))
            /\ e.destinationChainId = HexInt(SubSeq(data, WordLen + 1, 2 * WordLen))

====
